---- MODULE Spec2Model ----
(***************************************************************************)
(* Model of the video-analysis pipeline: main.analyze_video, the           *)
(* VideoProcessor extraction / OCR helpers and the AIAnalyzer calls to the *)
(* inference API.                                                          *)
(*                                                                         *)
(* JSON texts are modelled as records (a key of the object is a field of   *)
(* the record), plain texts as strings, timestamps as exact rationals      *)
(* [num, den], file names of frames as sequences of decimal digits.        *)
(***************************************************************************)
EXTENDS Integers, Sequences, FiniteSets, TLC

VARIABLES
    pc,          \* the statement of analyze_video that runs next
    video,       \* the video behind the URL: duration and scene changes
    fps,         \* the cadence passed to extract_all_frames
    tempDir,     \* the files of the working directory 'temp'
    outFrames,   \* the frame numbers of the files in output_dir/all_frames
    metadata,    \* video_metadata
    all_frames,  \* the list returned by extract_all_frames
    frames,      \* the list returned by extract_frames
    results,     \* the results dictionary
    rendered,    \* what the printing of the summary did
    archive,     \* the zip written by create_results_archive
    failedAt,    \* the statement whose exception reached the top level
    exitCode,    \* the exit status of the process, -1 while it runs
    lastCall     \* the latest call of an AIAnalyzer method and its outcome

vars == <<pc, video, fps, tempDir, outFrames, metadata, all_frames, frames,
          results, rendered, archive, failedAt, exitCode, lastCall>>

(***************************************************************************)
(* Bounds of the model.                                                    *)
(***************************************************************************)
\* longest video (seconds) handled by the pipeline specification
MaxDuration == 2
\* longest video (seconds) handled by the specification with fairness
LiveDuration == 1
\* longest video (seconds) of the dense-extraction specification
DenseDuration == 10
\* largest extraction cadence (Hz) of the dense-extraction specification
MaxFps == 5
\* most key frames in the results handed to generate_summary on its own
MaxPromptFrames == 1
MaxSummaryFrames == 2

(***************************************************************************)
(* Program constants.                                                      *)
(***************************************************************************)
base_delay == 5
max_retries == 3
max_frames == 3
AssumedFps == 30
PadWidth == 4

(***************************************************************************)
(* The environment: videos and the behaviour of the inference API.         *)
(***************************************************************************)
\* frame numbers (pts) the scene-change filter may emit for a video
SceneSets == { {}, {5}, {5, 150, 9999}, {5, 150, 9999, 10000} }

\* the videos a URL may lead to
Videos == [duration : 0..MaxDuration, scenes : SceneSets]

\* the videos of the specification with fairness
LiveSceneSets == { {}, {5}, {5, 150, 9999, 10000} }
LiveVideos == [duration : 0..LiveDuration, scenes : LiveSceneSets]

\* outcome of one request to the inference API
Outcomes == {"ok", "insufficient_quota", "api_error"}

\* the API's answers to the successive requests of one analyzer call
Scripts == [1..max_retries -> Outcomes]

\* the behaviours of the API the pipeline specification draws from: always
\* one outcome, or two non-quota failures before a success
RunScripts ==
    { [k \in 1..max_retries |-> o] : o \in Outcomes }
        \cup { [k \in 1..max_retries |->
                  IF k < max_retries THEN "api_error" ELSE "ok"] }

\* str(e) of the exception the client raises for a failed request
ErrorMsg(outcome) ==
    IF outcome = "insufficient_quota"
    THEN "Error code: 429 insufficient_quota"
    ELSE "Connection error"

\* "insufficient_quota" in error_msg
IsQuotaMsg(msg) == msg = "Error code: 429 insufficient_quota"

FileErrorMsg == "No such file or directory"

None == [none |-> TRUE]

(***************************************************************************)
(* Arithmetic helpers.                                                     *)
(***************************************************************************)
RECURSIVE Pow2(_)
Pow2(k) == IF k = 0 THEN 1 ELSE 2 * Pow2(k - 1)

Rat(n, d) == [num |-> n, den |-> d]
RatEq(a, b) == a.num * b.den = b.num * a.den
RatLeq(a, b) == a.num * b.den <= b.num * a.den

RECURSIVE Digits(_)
Digits(n) == IF n < 10 THEN <<n>> ELSE Append(Digits(n \div 10), n % 10)

RECURSIVE ZeroPad(_, _)
ZeroPad(ds, w) == IF Len(ds) >= w THEN ds ELSE ZeroPad(<<0>> \o ds, w)

\* "frame_%04d.jpg" % n, reduced to the digits between "frame_" and ".jpg"
FrameFileName(n) == ZeroPad(Digits(n), PadWidth)

RECURSIVE ParseInt(_)
ParseInt(ds) ==
    IF Len(ds) = 0 THEN 0
    ELSE 10 * ParseInt(SubSeq(ds, 1, Len(ds) - 1)) + ds[Len(ds)]

\* string order of two frame file names: the first differing character
\* decides; where one digit string ends the other continues with a digit,
\* which is greater than the "." of ".jpg"
RECURSIVE NameLess(_, _)
NameLess(a, b) ==
    IF Len(a) = 0 THEN Len(b) > 0
    ELSE IF Len(b) = 0 THEN FALSE
    ELSE IF a[1] # b[1] THEN a[1] < b[1]
    ELSE NameLess(Tail(a), Tail(b))

\* sorted([f for f in os.listdir(dir) if f.startswith('frame_')])
RECURSIVE SortedNames(_)
SortedNames(S) ==
    IF S = {} THEN <<>>
    ELSE LET m == CHOOSE x \in S : \A y \in S \ {x} : NameLess(x, y)
         IN  <<m>> \o SortedNames(S \ {m})

\* frame_files[:max_frames]
Take(s, n) == SubSeq(s, 1, IF Len(s) < n THEN Len(s) ELSE n)

(***************************************************************************)
(* VideoProcessor                                                          *)
(***************************************************************************)
\* _get_frame_timestamp: the number in the file name divided by 30.0
get_frame_timestamp(name) == Rat(ParseInt(name), AssumedFps)

\* the files "frame_%04d.jpg" of a directory holding the frame numbers S
FrameFiles(S) == { FrameFileName(n) : n \in S }

\* extract_frames without "frame_files = frame_files[:max_frames]"
extract_frames_uncapped(dirFrames) ==
    LET frame_files == SortedNames(FrameFiles(dirFrames))
    IN  [i \in 1..Len(frame_files) |->
            [path |-> frame_files[i],
             timestamp |-> get_frame_timestamp(frame_files[i])]]

\* extract_frames, after the toolchain has written its files to temp_dir
extract_frames(dirFrames) ==
    LET frame_files == Take(SortedNames(FrameFiles(dirFrames)), max_frames)
    IN  [i \in 1..Len(frame_files) |->
            [path |-> frame_files[i],
             timestamp |-> get_frame_timestamp(frame_files[i])]]

\* frame numbers written by "ffmpeg -vf fps=c -frame_pts 1": the pts of the
\* k-th output frame in the time base 1/c is k
DenseFrameNumbers(duration, cadence) == 0 .. (duration * cadence - 1)

\* extract_all_frames, after the toolchain has written its files
extract_all_frames(dirFrames) ==
    LET frame_files == SortedNames(FrameFiles(dirFrames))
    IN  [i \in 1..Len(frame_files) |->
            [path |-> frame_files[i],
             timestamp |-> get_frame_timestamp(frame_files[i]),
             filename |-> frame_files[i]]]

\* perform_ocr: the recognised text, or "" when reading or the engine fails
OcrTexts == {"text"}
perform_ocr(ok, text) == IF ok THEN text ELSE ""

\* detect_music: the stub
detect_music == [has_music |-> TRUE]

(***************************************************************************)
(* AIAnalyzer                                                              *)
(***************************************************************************)
\* contents the vision model may answer with: a JSON object of the requested
\* shape, or a text that json.loads rejects
VisionJson == [scene_description |-> "scene", detected_text |-> "text"]
VisionRaw == [raw |-> "not json"]
VisionContents == {VisionJson, VisionRaw}

\* the contents the pipeline specification lets the vision model answer with
RunVisionContents == {VisionJson}

\* contents the summary model may answer with: a JSON object of the
\* requested shape, or one whose chronological_events lack their keys
SummaryJson == [title |-> "title", chronological_events |-> "well-formed"]
SummaryOddJson == [title |-> "title", chronological_events |-> "malformed"]
SummaryContents == {SummaryJson, SummaryOddJson}

\* texts the speech model may answer with
SpeechTexts == {"speech"}

\* json.dumps({"error": "API quota exceeded", ...}) of analyze_image
ImageQuotaPayload(msg) ==
    [error |-> "API quota exceeded",
     message |-> "not enough API quota to analyse the image",
     technical_details |-> msg]

\* json.dumps({"error": "Analysis failed", ...}) of analyze_image
ImageFailedPayload(msg) ==
    [error |-> "Analysis failed",
     message |-> "could not analyse the image",
     technical_details |-> msg]

\* the two error strings of transcribe_audio
TranscribeQuotaText == "Error: API limit for transcription exceeded"
TranscribeFailedText == "Error while transcribing audio"

\* json.dumps({"error": "API quota exceeded", ...}) of generate_summary
SummaryQuotaPayload ==
    [error |-> "API quota exceeded",
     message |-> "not enough API quota to create the summary"]

\* json.dumps({"error": "Summary generation failed", ...})
SummaryFailedPayload(msg) ==
    [error |-> "Summary generation failed",
     message |-> "could not create the summary",
     technical_details |-> msg]

\* entries of the trace of an analyzer call
Sleep(d) == [op |-> "sleep", arg |-> d]
Request(k) == [op |-> "request", arg |-> k]

\* the retry loop without the "insufficient_quota" test: a quota failure is
\* retried like any other
RECURSIVE RetryLoop_quota_retried(_, _, _, _)
RetryLoop_quota_retried(script, content, attempt, log) ==
    IF attempt >= max_retries
    THEN [kind |-> "return", value |-> None, exc |-> "", log |-> log]
    ELSE LET delay == base_delay * Pow2(attempt)
             log1 == log \o <<Sleep(delay), Request(attempt)>>
             outcome == script[attempt + 1]
             error_msg == ErrorMsg(outcome)
         IN  IF outcome = "ok"
             THEN [kind |-> "return", value |-> content, exc |-> "",
                   log |-> log1]
             ELSE IF attempt = max_retries - 1
             THEN [kind |-> "raise", value |-> None, exc |-> error_msg,
                   log |-> log1]
             ELSE RetryLoop_quota_retried(script, content, attempt + 1, log1)

\* the retry loop giving up one attempt early: "attempt == max_retries - 2"
RECURSIVE RetryLoop_gives_up_early(_, _, _, _)
RetryLoop_gives_up_early(script, content, attempt, log) ==
    IF attempt >= max_retries
    THEN [kind |-> "return", value |-> None, exc |-> "", log |-> log]
    ELSE LET delay == base_delay * Pow2(attempt)
             log1 == log \o <<Sleep(delay), Request(attempt)>>
             outcome == script[attempt + 1]
             error_msg == ErrorMsg(outcome)
         IN  IF outcome = "ok"
             THEN [kind |-> "return", value |-> content, exc |-> "",
                   log |-> log1]
             ELSE IF IsQuotaMsg(error_msg)
             THEN [kind |-> "return", value |-> ImageQuotaPayload(error_msg),
                   exc |-> "", log |-> log1]
             ELSE IF attempt = max_retries - 2
             THEN [kind |-> "raise", value |-> None, exc |-> error_msg,
                   log |-> log1]
             ELSE RetryLoop_gives_up_early(script, content, attempt + 1, log1)

\* the retry loop waiting only between attempts: no wait before the first
\* request, base_delay * 2^(attempt - 1) before the later ones
RECURSIVE RetryLoop_reactive_backoff(_, _, _, _)
RetryLoop_reactive_backoff(script, content, attempt, log) ==
    IF attempt >= max_retries
    THEN [kind |-> "return", value |-> None, exc |-> "", log |-> log]
    ELSE LET log1 == IF attempt = 0
                     THEN Append(log, Request(attempt))
                     ELSE log \o <<Sleep(base_delay * Pow2(attempt - 1)),
                                   Request(attempt)>>
             outcome == script[attempt + 1]
             error_msg == ErrorMsg(outcome)
         IN  IF outcome = "ok"
             THEN [kind |-> "return", value |-> content, exc |-> "",
                   log |-> log1]
             ELSE IF IsQuotaMsg(error_msg)
             THEN [kind |-> "return", value |-> ImageQuotaPayload(error_msg),
                   exc |-> "", log |-> log1]
             ELSE IF attempt = max_retries - 1
             THEN [kind |-> "raise", value |-> None, exc |-> error_msg,
                   log |-> log1]
             ELSE RetryLoop_reactive_backoff(script, content, attempt + 1,
                                             log1)

\* one iteration of "for attempt in range(max_retries)" of analyze_image and
\* the iterations after it; content is what the API answers when it succeeds
RECURSIVE RetryLoop(_, _, _, _)
RetryLoop(script, content, attempt, log) ==
    IF attempt >= max_retries
    THEN [kind |-> "return", value |-> None, exc |-> "", log |-> log]
    ELSE LET delay == base_delay * Pow2(attempt)
             log1 == log \o <<Sleep(delay), Request(attempt)>>
             outcome == script[attempt + 1]
             error_msg == ErrorMsg(outcome)
         IN  IF outcome = "ok"
             THEN [kind |-> "return", value |-> content, exc |-> "",
                   log |-> log1]
             ELSE IF IsQuotaMsg(error_msg)
             THEN [kind |-> "return", value |-> ImageQuotaPayload(error_msg),
                   exc |-> "", log |-> log1]
             ELSE IF attempt = max_retries - 1
             THEN [kind |-> "raise", value |-> None, exc |-> error_msg,
                   log |-> log1]
             ELSE RetryLoop(script, content, attempt + 1, log1)

\* analyze_image without its outer "except Exception": the error of the last
\* attempt reaches the caller
analyze_image_unhandled(fileOk, script, content) ==
    IF ~fileOk
    THEN [value |-> None, raised |-> TRUE, log |-> <<>>]
    ELSE LET r == RetryLoop(script, content, 0, <<>>)
         IN  [value |-> r.value, raised |-> r.kind = "raise", log |-> r.log]

\* analyze_image: the file is read, the retry loop runs, and the outer
\* handler turns whatever was raised into a payload
analyze_image(fileOk, script, content) ==
    IF ~fileOk
    THEN [value |-> ImageFailedPayload(FileErrorMsg), raised |-> FALSE,
          log |-> <<>>]
    ELSE LET r == RetryLoop(script, content, 0, <<>>)
         IN  IF r.kind = "raise"
             THEN [value |-> ImageFailedPayload(r.exc), raised |-> FALSE,
                   log |-> r.log]
             ELSE [value |-> r.value, raised |-> FALSE, log |-> r.log]

\* transcribe_audio asking a second time after a failure that is not a quota
\* failure
transcribe_audio_retrying(fileOk, script, content) ==
    LET log0 == <<Sleep(base_delay)>>
    IN  IF ~fileOk
        THEN [value |-> TranscribeFailedText, raised |-> FALSE, log |-> log0]
        ELSE LET log1 == Append(log0, Request(0))
                 log2 == log1 \o <<Sleep(2 * base_delay), Request(1)>>
             IN  IF script[1] = "ok"
                 THEN [value |-> content, raised |-> FALSE, log |-> log1]
                 ELSE IF IsQuotaMsg(ErrorMsg(script[1]))
                 THEN [value |-> TranscribeQuotaText, raised |-> FALSE,
                       log |-> log1]
                 ELSE IF script[2] = "ok"
                 THEN [value |-> content, raised |-> FALSE, log |-> log2]
                 ELSE IF IsQuotaMsg(ErrorMsg(script[2]))
                 THEN [value |-> TranscribeQuotaText, raised |-> FALSE,
                       log |-> log2]
                 ELSE [value |-> TranscribeFailedText, raised |-> FALSE,
                       log |-> log2]

\* transcribe_audio: one wait, the file is opened, one request
transcribe_audio(fileOk, script, content) ==
    LET log0 == <<Sleep(base_delay)>>
    IN  IF ~fileOk
        THEN [value |-> TranscribeFailedText, raised |-> FALSE, log |-> log0]
        ELSE LET log1 == Append(log0, Request(0))
                 error_msg == ErrorMsg(script[1])
             IN  IF script[1] = "ok"
                 THEN [value |-> content, raised |-> FALSE, log |-> log1]
                 ELSE IF IsQuotaMsg(error_msg)
                 THEN [value |-> TranscribeQuotaText, raised |-> FALSE,
                       log |-> log1]
                 ELSE [value |-> TranscribeFailedText, raised |-> FALSE,
                       log |-> log1]

\* json.loads(text) succeeds
Parses(payload) == "raw" \notin DOMAIN payload

\* 'error' in json.loads(text)
HasError(payload) == "error" \in DOMAIN payload

\* the lines of one entry when the error marker is not looked at
FramePromptLines_error_included(frame) ==
    <<[line |-> "moment", timestamp |-> frame.timestamp]>>
    \o (IF Parses(frame.vision_analysis)
        THEN <<[line |-> "analysis", json |-> frame.vision_analysis]>>
        ELSE <<[line |-> "raw", json |-> frame.vision_analysis]>>)
    \o (IF frame.ocr_text # ""
        THEN <<[line |-> "found text", text |-> frame.ocr_text]>>
        ELSE <<>>)

\* the lines _create_summary_prompt adds for one entry of results['frames']
FramePromptLines(frame) ==
    <<[line |-> "moment", timestamp |-> frame.timestamp]>>
    \o (IF Parses(frame.vision_analysis)
        THEN IF ~HasError(frame.vision_analysis)
             THEN <<[line |-> "analysis", json |-> frame.vision_analysis]>>
             ELSE <<>>
        ELSE <<[line |-> "raw", json |-> frame.vision_analysis]>>)
    \o (IF frame.ocr_text # ""
        THEN <<[line |-> "found text", text |-> frame.ocr_text]>>
        ELSE <<>>)

RECURSIVE FramesPromptLines(_)
FramesPromptLines(fs) ==
    IF Len(fs) = 0 THEN <<>>
    ELSE FramePromptLines(Head(fs)) \o FramesPromptLines(Tail(fs))

\* _create_summary_prompt
create_summary_prompt(res) ==
    <<[line |-> "header"]>>
    \o (IF Len(res.frames) > 0
        THEN <<[line |-> "key frames"]>> \o FramesPromptLines(res.frames)
        ELSE <<>>)
    \o (IF res.audio_analysis # None
        THEN <<[line |-> "audio",
                text |-> res.audio_analysis.transcription]>>
             \o (IF res.audio_analysis.music_detection.has_music
                 THEN <<[line |-> "music"]>> ELSE <<>>)
        ELSE <<>>)

\* generate_summary handling only the quota failure: any other exception of
\* the request reaches the caller
generate_summary_reraising(res, script, content) ==
    LET log1 == <<Sleep(base_delay), Request(0)>>
        prompt == create_summary_prompt(res)
        error_msg == ErrorMsg(script[1])
    IN  IF script[1] = "ok"
        THEN [value |-> content, raised |-> FALSE, log |-> log1,
              prompt |-> prompt]
        ELSE IF IsQuotaMsg(error_msg)
        THEN [value |-> SummaryQuotaPayload, raised |-> FALSE, log |-> log1,
              prompt |-> prompt]
        ELSE [value |-> None, raised |-> TRUE, log |-> log1,
              prompt |-> prompt]

\* generate_summary: one wait, the prompt is built, one request; every
\* exception becomes an error-shaped payload
generate_summary(res, script, content) ==
    LET log1 == <<Sleep(base_delay), Request(0)>>
        prompt == create_summary_prompt(res)
        error_msg == ErrorMsg(script[1])
    IN  IF script[1] = "ok"
        THEN [value |-> content, raised |-> FALSE, log |-> log1,
              prompt |-> prompt]
        ELSE IF IsQuotaMsg(error_msg)
        THEN [value |-> SummaryQuotaPayload, raised |-> FALSE, log |-> log1,
              prompt |-> prompt]
        ELSE [value |-> SummaryFailedPayload(error_msg), raised |-> FALSE,
              log |-> log1, prompt |-> prompt]

\* the try block that prints the summary in analyze_video: which branch ran
print_summary(summary) ==
    IF ~Parses(summary) THEN "exception"
    ELSE IF HasError(summary) THEN "error branch"
    ELSE IF summary.chronological_events = "malformed" THEN "exception"
    ELSE "printed"

(***************************************************************************)
(* analyze_video                                                           *)
(***************************************************************************)
NoVideo == [duration |-> 0, scenes |-> {}]
NoCall == [fn |-> "none"]
EmptyDir == [exists |-> FALSE, video |-> FALSE, frames |-> {},
             audio |-> FALSE]
EmptyResults == [frames |-> <<>>, audio_analysis |-> None,
                 all_frames_info |-> <<>>, summary |-> None]
UnknownMetadata == [duration |-> 0, format |-> "Unknown"]

Init ==
    /\ pc = "start"
    /\ video = NoVideo
    /\ fps = 1
    /\ tempDir = EmptyDir
    /\ outFrames = {}
    /\ metadata = None
    /\ all_frames = <<>>
    /\ frames = <<>>
    /\ results = EmptyResults
    /\ rendered = "nothing"
    /\ archive = None
    /\ failedAt = "nowhere"
    /\ exitCode = -1
    /\ lastCall = NoCall

\* the handler around the body of analyze_video without its sys.exit(1):
\* the error is printed and the process ends with status 0
Fatal_exits_zero(stage) ==
    /\ pc' = "done"
    /\ failedAt' = stage
    /\ exitCode' = 0

\* "except Exception as e: ... sys.exit(1)" around the body of analyze_video
Fatal(stage) ==
    /\ pc' = "failed"
    /\ failedAt' = stage
    /\ exitCode' = 1

\* the statement that follows the extraction of the key frames, and each
\* iteration of the two loops over the frames
AfterFrames(nAll, nAllDone, nKey, nKeyDone) ==
    IF nAllDone < nAll THEN "ocr_all"
    ELSE IF nKeyDone < nKey THEN "key_frames"
    ELSE "extract_audio"

\* VideoProcessor(temp_dir='temp'), AIAnalyzer(), os.makedirs(output_dir)
Start ==
    /\ pc = "start"
    /\ tempDir' = [tempDir EXCEPT !.exists = TRUE]
    /\ pc' = "download"
    /\ UNCHANGED <<video, fps, outFrames, metadata, all_frames, frames,
                   results, rendered, archive, failedAt, exitCode, lastCall>>

\* video_processor.download_video(url), the URL leading to one of the videos
DownloadVideoFrom(videos) ==
    /\ pc = "download"
    /\ \/ \E v \in videos :
            /\ video' = v
            /\ tempDir' = [tempDir EXCEPT !.video = TRUE]
            /\ pc' = "metadata"
            /\ UNCHANGED <<failedAt, exitCode>>
       \/ /\ Fatal("download_video")
          /\ UNCHANGED <<video, tempDir>>
    /\ UNCHANGED <<fps, outFrames, metadata, all_frames, frames, results,
                   rendered, archive, lastCall>>

DownloadVideo == DownloadVideoFrom(Videos)

\* video_processor.get_video_metadata(video_path): never raises
GetVideoMetadata ==
    /\ pc = "metadata"
    /\ \E probed \in BOOLEAN :
          metadata' = IF probed
                      THEN [duration |-> video.duration, format |-> "mp4"]
                      ELSE UnknownMetadata
    /\ pc' = "extract_all"
    /\ UNCHANGED <<video, fps, tempDir, outFrames, all_frames, frames,
                   results, rendered, archive, failedAt, exitCode, lastCall>>

\* video_processor.extract_all_frames(video_path, output_dir, fps=1)
ExtractAllFrames ==
    /\ pc = "extract_all"
    /\ \/ /\ outFrames' = outFrames \cup DenseFrameNumbers(video.duration, fps)
          /\ all_frames' = extract_all_frames(outFrames')
          /\ pc' = "extract_key"
          /\ UNCHANGED <<failedAt, exitCode>>
       \/ /\ Fatal("extract_all_frames")
          /\ UNCHANGED <<outFrames, all_frames>>
    /\ UNCHANGED <<video, fps, tempDir, metadata, frames, results, rendered,
                   archive, lastCall>>

\* video_processor.extract_frames(video_path), and "results = {...}"
ExtractFrames ==
    /\ pc = "extract_key"
    /\ \/ /\ tempDir' = [tempDir EXCEPT !.frames = @ \cup video.scenes]
          /\ frames' = extract_frames(tempDir'.frames)
          /\ results' = EmptyResults
          /\ pc' = AfterFrames(Len(all_frames), 0, Len(frames'), 0)
          /\ UNCHANGED <<failedAt, exitCode>>
       \/ /\ Fatal("extract_frames")
          /\ UNCHANGED <<tempDir, frames, results>>
    /\ UNCHANGED <<video, fps, outFrames, metadata, all_frames, rendered,
                   archive, lastCall>>

\* one iteration of "for frame_info in all_frames"
OcrAllFrame ==
    /\ pc = "ocr_all"
    /\ LET i == Len(results.all_frames_info) + 1
           frame_info == all_frames[i]
       IN  \E ok \in BOOLEAN, text \in OcrTexts :
              LET frame_data == [timestamp |-> frame_info.timestamp,
                                 filename |-> frame_info.filename,
                                 ocr_text |-> perform_ocr(ok, text)]
              IN  /\ results' = [results EXCEPT !.all_frames_info =
                                                    Append(@, frame_data)]
                  /\ pc' = AfterFrames(Len(all_frames), i, Len(frames), 0)
    /\ UNCHANGED <<video, fps, tempDir, outFrames, metadata, all_frames,
                   frames, rendered, archive, failedAt, exitCode, lastCall>>

\* the loop over the key frames leaving at the first frame whose vision
\* analysis is an error payload
KeyFrameAnalysis_stops_on_error ==
    /\ pc = "key_frames"
    /\ LET i == Len(results.frames) + 1
           frame == frames[i]
           fileOk == frame.path \in FrameFiles(tempDir.frames)
       IN  \E ok \in BOOLEAN, text \in OcrTexts, script \in RunScripts,
              content \in RunVisionContents :
              LET r == analyze_image(fileOk, script, content)
                  frame_analysis ==
                      [timestamp |-> frame.timestamp,
                       ocr_text |-> perform_ocr(ok, text),
                       vision_analysis |-> r.value]
              IN  IF r.raised \/ HasError(r.value)
                  THEN /\ pc' = "extract_audio"
                       /\ UNCHANGED <<results, failedAt, exitCode>>
                  ELSE /\ results' = [results EXCEPT !.frames =
                                                    Append(@, frame_analysis)]
                       /\ pc' = AfterFrames(Len(all_frames), Len(all_frames),
                                            Len(frames), i)
                       /\ UNCHANGED <<failedAt, exitCode>>
    /\ UNCHANGED <<video, fps, tempDir, outFrames, metadata, all_frames,
                   frames, rendered, archive, lastCall>>

\* one iteration of "for i, frame in enumerate(frames, 1)"
KeyFrameAnalysis ==
    /\ pc = "key_frames"
    /\ LET i == Len(results.frames) + 1
           frame == frames[i]
           fileOk == frame.path \in FrameFiles(tempDir.frames)
       IN  \E ok \in BOOLEAN, text \in OcrTexts, script \in RunScripts,
              content \in RunVisionContents :
              LET r == analyze_image(fileOk, script, content)
                  frame_analysis ==
                      [timestamp |-> frame.timestamp,
                       ocr_text |-> perform_ocr(ok, text),
                       vision_analysis |-> r.value]
              IN  IF r.raised
                  THEN /\ Fatal("analyze_image")
                       /\ UNCHANGED results
                  ELSE /\ results' = [results EXCEPT !.frames =
                                                    Append(@, frame_analysis)]
                       /\ pc' = AfterFrames(Len(all_frames), Len(all_frames),
                                            Len(frames), i)
                       /\ UNCHANGED <<failedAt, exitCode>>
    /\ UNCHANGED <<video, fps, tempDir, outFrames, metadata, all_frames,
                   frames, rendered, archive, lastCall>>

\* video_processor.extract_audio(video_path)
ExtractAudio ==
    /\ pc = "extract_audio"
    /\ \/ /\ tempDir' = [tempDir EXCEPT !.audio = TRUE]
          /\ pc' = "audio_analysis"
          /\ UNCHANGED <<failedAt, exitCode>>
       \/ /\ Fatal("extract_audio")
          /\ UNCHANGED tempDir
    /\ UNCHANGED <<video, fps, outFrames, metadata, all_frames, frames,
                   results, rendered, archive, lastCall>>

\* results['audio_analysis'] = {'transcription': ..., 'music_detection': ...}
AnalyzeAudio ==
    /\ pc = "audio_analysis"
    /\ \E script \in RunScripts, content \in SpeechTexts :
          LET r == transcribe_audio(tempDir.audio, script, content)
          IN  IF r.raised
              THEN /\ Fatal("transcribe_audio")
                   /\ UNCHANGED results
              ELSE /\ results' = [results EXCEPT !.audio_analysis =
                                     [transcription |-> r.value,
                                      music_detection |-> detect_music]]
                   /\ pc' = "summary"
                   /\ UNCHANGED <<failedAt, exitCode>>
    /\ UNCHANGED <<video, fps, tempDir, outFrames, metadata, all_frames,
                   frames, rendered, archive, lastCall>>

\* results['summary'] = ai_analyzer.generate_summary(results)
GenerateSummary ==
    /\ pc = "summary"
    /\ \E script \in RunScripts, content \in SummaryContents :
          LET r == generate_summary(results, script, content)
          IN  IF r.raised
              THEN /\ Fatal("generate_summary")
                   /\ UNCHANGED results
              ELSE /\ results' = [results EXCEPT !.summary = r.value]
                   /\ pc' = "print"
                   /\ UNCHANGED <<failedAt, exitCode>>
    /\ UNCHANGED <<video, fps, tempDir, outFrames, metadata, all_frames,
                   frames, rendered, archive, lastCall>>

\* the printing of the summary without its "except Exception": an exception
\* raised while printing reaches the top level
PrintSummary_uncaught ==
    /\ pc = "print"
    /\ rendered' = print_summary(results.summary)
    /\ IF rendered' = "exception"
       THEN Fatal("print_summary")
       ELSE /\ pc' = "archive"
            /\ UNCHANGED <<failedAt, exitCode>>
    /\ UNCHANGED <<video, fps, tempDir, outFrames, metadata, all_frames,
                   frames, results, archive, lastCall>>

\* the try block that prints the summary
PrintSummary ==
    /\ pc = "print"
    /\ rendered' = print_summary(results.summary)
    /\ pc' = "archive"
    /\ UNCHANGED <<video, fps, tempDir, outFrames, metadata, all_frames,
                   frames, results, archive, failedAt, exitCode, lastCall>>

\* create_results_archive(results, output_dir, video_metadata); writing the
\* files may fail, and the exception is raised again
CreateArchive ==
    /\ pc = "archive"
    /\ \/ /\ archive' = [analysis |-> results, all_frames |-> outFrames]
          /\ pc' = "cleanup"
          /\ UNCHANGED <<failedAt, exitCode>>
       \/ /\ Fatal("create_results_archive")
          /\ UNCHANGED archive
    /\ UNCHANGED <<video, fps, tempDir, outFrames, metadata, all_frames,
                   frames, results, rendered, lastCall>>

\* video_processor.cleanup()
Cleanup ==
    /\ pc = "cleanup"
    /\ tempDir' = [EmptyDir EXCEPT !.exists = TRUE]
    /\ pc' = "publish"
    /\ UNCHANGED <<video, fps, outFrames, metadata, all_frames, frames,
                   results, rendered, archive, failedAt, exitCode, lastCall>>

\* "if publish: try: publish_to_github() except ...", and the return
Publish ==
    /\ pc = "publish"
    /\ pc' = "done"
    /\ exitCode' = 0
    /\ UNCHANGED <<video, fps, tempDir, outFrames, metadata, all_frames,
                   frames, results, rendered, archive, failedAt, lastCall>>

Next ==
    \/ Start
    \/ DownloadVideo
    \/ GetVideoMetadata
    \/ ExtractAllFrames
    \/ ExtractFrames
    \/ OcrAllFrame
    \/ KeyFrameAnalysis
    \/ ExtractAudio
    \/ AnalyzeAudio
    \/ GenerateSummary
    \/ PrintSummary
    \/ CreateArchive
    \/ Cleanup
    \/ Publish

Spec == Init /\ [][Next]_vars

\* the pipeline on the videos of LiveVideos
DownloadLiveVideo == DownloadVideoFrom(LiveVideos)

NextLive ==
    \/ Start
    \/ DownloadLiveVideo
    \/ GetVideoMetadata
    \/ ExtractAllFrames
    \/ ExtractFrames
    \/ OcrAllFrame
    \/ KeyFrameAnalysis
    \/ ExtractAudio
    \/ AnalyzeAudio
    \/ GenerateSummary
    \/ PrintSummary
    \/ CreateArchive
    \/ Cleanup
    \/ Publish

\* the program is sequential and every statement of it returns: the
\* statement that is next is eventually executed
FairSpec == Init /\ [][NextLive]_vars /\ WF_vars(NextLive)

(***************************************************************************)
(* The AIAnalyzer methods on their own: every behaviour of the API, every  *)
(* readability of the input file.                                          *)
(***************************************************************************)
CallRecord(fn, fileOk, script, content, r, prompt) ==
    [fn |-> fn, fileOk |-> fileOk, script |-> script, content |-> content,
     value |-> r.value, raised |-> r.raised, log |-> r.log,
     prompt |-> prompt]

\* the number of requests sent to the API during a call
Requests(log) == Cardinality({ i \in DOMAIN log : log[i].op = "request" })

\* the API answers every request of the call with the given outcome
Always(script, outcome) == \A k \in DOMAIN script : script[k] = outcome

\* the request at which the retry loop stops asking: the first one that is
\* not answered with a non-quota failure, or the last one allowed
RECURSIVE FirstStop(_, _)
FirstStop(script, k) ==
    IF k >= max_retries \/ script[k] # "api_error" THEN k
    ELSE FirstStop(script, k + 1)

\* entries of results['frames'] handed to generate_summary
PromptFrames ==
    [timestamp : {Rat(5, AssumedFps)}, ocr_text : {"", "text"},
     vision_analysis : {VisionJson, VisionRaw,
                        ImageQuotaPayload(ErrorMsg("insufficient_quota"))}]

PromptResults ==
    { [frames |-> fs, audio_analysis |-> a, all_frames_info |-> <<>>,
       summary |-> None] :
        fs \in UNION { [1..n -> PromptFrames] : n \in 0..MaxPromptFrames },
        a \in {None, [transcription |-> "speech",
                      music_detection |-> detect_music]} }

InitAI ==
    /\ pc = "analyzer"
    /\ video = NoVideo
    /\ fps = 1
    /\ tempDir = EmptyDir
    /\ outFrames = {}
    /\ metadata = None
    /\ all_frames = <<>>
    /\ frames = <<>>
    /\ results \in PromptResults
    /\ rendered = "nothing"
    /\ archive = None
    /\ failedAt = "nowhere"
    /\ exitCode = -1
    /\ lastCall = NoCall

CallAnalyzeImage ==
    /\ pc = "analyzer"
    /\ \E fileOk \in BOOLEAN, script \in Scripts, content \in VisionContents :
          lastCall' = CallRecord("analyze_image", fileOk, script, content,
                                 analyze_image(fileOk, script, content), <<>>)
    /\ UNCHANGED <<pc, video, fps, tempDir, outFrames, metadata, all_frames,
                   frames, results, rendered, archive, failedAt, exitCode>>

CallTranscribeAudio ==
    /\ pc = "analyzer"
    /\ \E fileOk \in BOOLEAN, script \in Scripts, content \in SpeechTexts :
          lastCall' = CallRecord("transcribe_audio", fileOk, script, content,
                                 transcribe_audio(fileOk, script, content),
                                 <<>>)
    /\ UNCHANGED <<pc, video, fps, tempDir, outFrames, metadata, all_frames,
                   frames, results, rendered, archive, failedAt, exitCode>>

CallGenerateSummary ==
    /\ pc = "analyzer"
    /\ \E script \in Scripts, content \in SummaryContents :
          LET r == generate_summary(results, script, content)
          IN  lastCall' = CallRecord("generate_summary", TRUE, script, content,
                                     r, r.prompt)
    /\ UNCHANGED <<pc, video, fps, tempDir, outFrames, metadata, all_frames,
                   frames, results, rendered, archive, failedAt, exitCode>>

NextAI == CallAnalyzeImage \/ CallTranscribeAudio \/ CallGenerateSummary

SpecAI == InitAI /\ [][NextAI]_vars

(***************************************************************************)
(* extract_all_frames on its own: every duration and cadence.              *)
(***************************************************************************)
InitDense ==
    /\ pc = "extract_all"
    /\ video \in [duration : 0..DenseDuration, scenes : {{}}]
    /\ fps \in 1..MaxFps
    /\ tempDir = [EmptyDir EXCEPT !.exists = TRUE, !.video = TRUE]
    /\ outFrames = {}
    /\ metadata = UnknownMetadata
    /\ all_frames = <<>>
    /\ frames = <<>>
    /\ results = EmptyResults
    /\ rendered = "nothing"
    /\ archive = None
    /\ failedAt = "nowhere"
    /\ exitCode = -1
    /\ lastCall = NoCall

SpecDense == InitDense /\ [][ExtractAllFrames]_vars

(***************************************************************************)
(* _create_summary_prompt on its own: every report of up to                *)
(* MaxSummaryFrames key frames, each payload shape analyze_image returns.  *)
(***************************************************************************)
SummaryFrames ==
    [timestamp : {Rat(5, AssumedFps), Rat(150, AssumedFps)},
     ocr_text : {"", "text"},
     vision_analysis : {VisionJson, VisionRaw,
                        ImageQuotaPayload(ErrorMsg("insufficient_quota")),
                        ImageFailedPayload(ErrorMsg("api_error"))}]

SummaryResults ==
    { [frames |-> fs, audio_analysis |-> a, all_frames_info |-> <<>>,
       summary |-> None] :
        fs \in UNION { [1..n -> SummaryFrames] : n \in 0..MaxSummaryFrames },
        a \in {None, [transcription |-> "speech",
                      music_detection |-> detect_music]} }

InitPrompt ==
    /\ pc = "prompt"
    /\ video = NoVideo
    /\ fps = 1
    /\ tempDir = EmptyDir
    /\ outFrames = {}
    /\ metadata = None
    /\ all_frames = <<>>
    /\ frames = <<>>
    /\ results \in SummaryResults
    /\ rendered = "nothing"
    /\ archive = None
    /\ failedAt = "nowhere"
    /\ exitCode = -1
    /\ lastCall = NoCall

CallCreateSummaryPrompt ==
    /\ pc = "prompt"
    /\ LET prompt == create_summary_prompt(results)
       IN  lastCall' = CallRecord("_create_summary_prompt", TRUE, <<>>, None,
                                  [value |-> None, raised |-> FALSE,
                                   log |-> <<>>], prompt)
    /\ UNCHANGED <<pc, video, fps, tempDir, outFrames, metadata, all_frames,
                   frames, results, rendered, archive, failedAt, exitCode>>

SpecPrompt == InitPrompt /\ [][CallCreateSummaryPrompt]_vars

(***************************************************************************)
(* The program run again and again: each run is a new process and a new    *)
(* output directory, the working directory 'temp' is the one the earlier   *)
(* runs left behind.                                                       *)
(***************************************************************************)
RerunSceneSets == { {5}, {150} }
RerunVideos == [duration : 0..LiveDuration, scenes : RerunSceneSets]

DownloadRerunVideo == DownloadVideoFrom(RerunVideos)

\* "python main.py <url>" invoked once more after the previous run has ended
Restart ==
    /\ pc \in {"done", "failed"}
    /\ pc' = "start"
    /\ video' = NoVideo
    /\ fps' = 1
    /\ outFrames' = {}
    /\ metadata' = None
    /\ all_frames' = <<>>
    /\ frames' = <<>>
    /\ results' = EmptyResults
    /\ rendered' = "nothing"
    /\ archive' = None
    /\ failedAt' = "nowhere"
    /\ exitCode' = -1
    /\ UNCHANGED <<tempDir, lastCall>>

NextRuns ==
    \/ Start
    \/ DownloadRerunVideo
    \/ GetVideoMetadata
    \/ ExtractAllFrames
    \/ ExtractFrames
    \/ OcrAllFrame
    \/ KeyFrameAnalysis
    \/ ExtractAudio
    \/ AnalyzeAudio
    \/ GenerateSummary
    \/ PrintSummary
    \/ CreateArchive
    \/ Cleanup
    \/ Publish
    \/ Restart

SpecRuns == Init /\ [][NextRuns]_vars

(***************************************************************************)
(* Two runs of the program at the same time. Both construct                *)
(* VideoProcessor(temp_dir='temp'): the working directory is shared, and   *)
(* nothing in the program makes a run wait for the other. pc, video,       *)
(* frames, results, failedAt and exitCode hold one value per run; tempDir  *)
(* records for each file the run that wrote it (0: no file). The videos    *)
(* have no dense frames, so the loop over all_frames has no iteration; the *)
(* API answers every request.                                              *)
(***************************************************************************)
Runs == {1, 2}

TwoRunVideos == [duration : {0}, scenes : RerunSceneSets]

OkScript == [k \in 1..max_retries |-> "ok"]

SharedEmptyDir == [exists |-> FALSE, video |-> 0, frames |-> {}, audio |-> 0]

\* the frame numbers of the frame_* files of the shared directory
DirFrameNumbers(dir) == { f.n : f \in dir.frames }

RunOthers == <<fps, outFrames, metadata, all_frames, rendered, archive,
               lastCall>>

InitTwoRuns ==
    /\ pc = [p \in Runs |-> "start"]
    /\ video = [p \in Runs |-> NoVideo]
    /\ fps = 1
    /\ tempDir = SharedEmptyDir
    /\ outFrames = {}
    /\ metadata = None
    /\ all_frames = <<>>
    /\ frames = [p \in Runs |-> <<>>]
    /\ results = [p \in Runs |-> EmptyResults]
    /\ rendered = "nothing"
    /\ archive = None
    /\ failedAt = [p \in Runs |-> "nowhere"]
    /\ exitCode = [p \in Runs |-> -1]
    /\ lastCall = NoCall

\* the statement after which run p continues
RunGoto(p, stage) ==
    /\ pc' = [pc EXCEPT ![p] = stage]
    /\ UNCHANGED <<failedAt, exitCode>>

\* "except Exception as e: ... sys.exit(1)" in run p
RunFatal(p, stage) ==
    /\ pc' = [pc EXCEPT ![p] = "failed"]
    /\ failedAt' = [failedAt EXCEPT ![p] = stage]
    /\ exitCode' = [exitCode EXCEPT ![p] = 1]

\* VideoProcessor(temp_dir='temp'), AIAnalyzer(), os.makedirs(output_dir)
RunStart(p) ==
    /\ pc[p] = "start"
    /\ tempDir' = [tempDir EXCEPT !.exists = TRUE]
    /\ RunGoto(p, "download")
    /\ UNCHANGED <<video, frames, results, RunOthers>>

\* download_video: the downloader writes temp/video.<ext>, or finds the file
\* of the other run there and leaves it in place
RunDownloadVideo(p) ==
    /\ pc[p] = "download"
    /\ \/ \E v \in TwoRunVideos, written \in BOOLEAN :
            /\ video' = [video EXCEPT ![p] = v]
            /\ tempDir' = [tempDir EXCEPT !.video =
                              IF @ = 0 \/ written THEN p ELSE @]
            /\ RunGoto(p, "metadata")
       \/ /\ RunFatal(p, "download_video")
          /\ UNCHANGED <<video, tempDir>>
    /\ UNCHANGED <<frames, results, RunOthers>>

\* get_video_metadata: never raises
RunGetVideoMetadata(p) ==
    /\ pc[p] = "metadata"
    /\ RunGoto(p, "extract_all")
    /\ UNCHANGED <<video, tempDir, frames, results, RunOthers>>

\* extract_all_frames: the toolchain reads temp/video.<ext> and fails when
\* the file is not there
RunExtractAllFrames(p) ==
    /\ pc[p] = "extract_all"
    /\ \/ /\ tempDir.video # 0
          /\ RunGoto(p, "extract_key")
       \/ RunFatal(p, "extract_all_frames")
    /\ UNCHANGED <<video, tempDir, frames, results, RunOthers>>

\* extract_frames: the scene changes of the video that is in the directory
\* are written as frame_* files, then every frame_* file is listed
RunExtractFrames(p) ==
    /\ pc[p] = "extract_key"
    /\ \/ /\ tempDir.video # 0
          /\ LET scenes == video[tempDir.video].scenes
             IN  tempDir' = [tempDir EXCEPT !.frames =
                                { f \in @ : f.n \notin scenes }
                                \cup { [n |-> n, by |-> p] : n \in scenes }]
          /\ frames' = [frames EXCEPT
                           ![p] = extract_frames(DirFrameNumbers(tempDir'))]
          /\ results' = [results EXCEPT ![p] = EmptyResults]
          /\ RunGoto(p, AfterFrames(0, 0, Len(frames'[p]), 0))
       \/ /\ RunFatal(p, "extract_frames")
          /\ UNCHANGED <<tempDir, frames, results>>
    /\ UNCHANGED <<video, RunOthers>>

\* one iteration of "for i, frame in enumerate(frames, 1)" in run p
RunKeyFrameAnalysis(p) ==
    /\ pc[p] = "key_frames"
    /\ LET i == Len(results[p].frames) + 1
           frame == frames[p][i]
           fileOk == frame.path \in FrameFiles(DirFrameNumbers(tempDir))
           r == analyze_image(fileOk, OkScript, VisionJson)
           frame_analysis ==
               [timestamp |-> frame.timestamp,
                ocr_text |-> perform_ocr(fileOk, "text"),
                vision_analysis |-> r.value]
       IN  IF r.raised
           THEN /\ RunFatal(p, "analyze_image")
                /\ UNCHANGED results
           ELSE /\ results' = [results EXCEPT ![p].frames =
                                                  Append(@, frame_analysis)]
                /\ RunGoto(p, AfterFrames(0, 0, Len(frames[p]), i))
    /\ UNCHANGED <<video, tempDir, frames, RunOthers>>

\* extract_audio: the toolchain reads temp/video.<ext> and writes
\* temp/audio.wav over any file of that name ("-y")
RunExtractAudio(p) ==
    /\ pc[p] = "extract_audio"
    /\ \/ /\ tempDir.video # 0
          /\ tempDir' = [tempDir EXCEPT !.audio = p]
          /\ RunGoto(p, "audio_analysis")
       \/ /\ RunFatal(p, "extract_audio")
          /\ UNCHANGED tempDir
    /\ UNCHANGED <<video, frames, results, RunOthers>>

\* results['audio_analysis'] = {...} in run p
RunAnalyzeAudio(p) ==
    /\ pc[p] = "audio_analysis"
    /\ LET r == transcribe_audio(tempDir.audio # 0, OkScript, "speech")
       IN  IF r.raised
           THEN /\ RunFatal(p, "transcribe_audio")
                /\ UNCHANGED results
           ELSE /\ results' = [results EXCEPT ![p].audio_analysis =
                                  [transcription |-> r.value,
                                   music_detection |-> detect_music]]
                /\ RunGoto(p, "summary")
    /\ UNCHANGED <<video, tempDir, frames, RunOthers>>

\* results['summary'] = ai_analyzer.generate_summary(results) in run p
RunGenerateSummary(p) ==
    /\ pc[p] = "summary"
    /\ LET r == generate_summary(results[p], OkScript, SummaryJson)
       IN  IF r.raised
           THEN /\ RunFatal(p, "generate_summary")
                /\ UNCHANGED results
           ELSE /\ results' = [results EXCEPT ![p].summary = r.value]
                /\ RunGoto(p, "print")
    /\ UNCHANGED <<video, tempDir, frames, RunOthers>>

\* the try block that prints the summary in run p
RunPrintSummary(p) ==
    /\ pc[p] = "print"
    /\ RunGoto(p, "archive")
    /\ UNCHANGED <<video, tempDir, frames, results, RunOthers>>

\* create_results_archive in run p: works in the output directory
RunCreateArchive(p) ==
    /\ pc[p] = "archive"
    /\ \/ RunGoto(p, "cleanup")
       \/ RunFatal(p, "create_results_archive")
    /\ UNCHANGED <<video, tempDir, frames, results, RunOthers>>

\* video_processor.cleanup() in run p: the whole directory is removed and
\* made again
RunCleanup(p) ==
    /\ pc[p] = "cleanup"
    /\ tempDir' = [SharedEmptyDir EXCEPT !.exists = TRUE]
    /\ RunGoto(p, "publish")
    /\ UNCHANGED <<video, frames, results, RunOthers>>

\* "if publish: ...", and the return of run p
RunPublish(p) ==
    /\ pc[p] = "publish"
    /\ pc' = [pc EXCEPT ![p] = "done"]
    /\ exitCode' = [exitCode EXCEPT ![p] = 0]
    /\ UNCHANGED <<video, tempDir, frames, results, failedAt, RunOthers>>

NextTwoRuns ==
    \/ \E p \in Runs : RunStart(p)
    \/ \E p \in Runs : RunDownloadVideo(p)
    \/ \E p \in Runs : RunGetVideoMetadata(p)
    \/ \E p \in Runs : RunExtractAllFrames(p)
    \/ \E p \in Runs : RunExtractFrames(p)
    \/ \E p \in Runs : RunKeyFrameAnalysis(p)
    \/ \E p \in Runs : RunExtractAudio(p)
    \/ \E p \in Runs : RunAnalyzeAudio(p)
    \/ \E p \in Runs : RunGenerateSummary(p)
    \/ \E p \in Runs : RunPrintSummary(p)
    \/ \E p \in Runs : RunCreateArchive(p)
    \/ \E p \in Runs : RunCleanup(p)
    \/ \E p \in Runs : RunPublish(p)

SpecTwoRuns == InitTwoRuns /\ [][NextTwoRuns]_vars

(***************************************************************************)
(* Properties                                                              *)
(***************************************************************************)
Called(fn) == lastCall.fn = fn

\* C1: extract_frames returns at most max_frames (3) key frames, however
\* many scene-change files the working directory holds, and the results
\* never hold more than 3 key-frame analyses.
C1_KeyFramesCapped ==
    /\ Len(frames) <= max_frames
    /\ Len(results.frames) <= max_frames

\* the toolchain produced more than 3 files and all 3 kept were analysed
C1_Witness ==
    /\ Cardinality(tempDir.frames) > max_frames
    /\ Len(frames) = max_frames
    /\ Len(results.frames) = max_frames

\* C2: when the API answers every request with a quota failure, each of
\* analyze_image, transcribe_audio and generate_summary sends at most one
\* request, raises nothing and returns an error value that is no success
\* payload; when its input file could be read, it sends exactly one request
\* and the value is its quota error.
C2_QuotaStopsAtOnce ==
    (lastCall.fn # "none" /\ Always(lastCall.script, "insufficient_quota"))
    => /\ ~lastCall.raised
       /\ Requests(lastCall.log) <= 1
       /\ lastCall.fileOk => Requests(lastCall.log) = 1
       /\ Called("analyze_image") =>
             /\ HasError(lastCall.value)
             /\ lastCall.value \notin VisionContents
             /\ lastCall.fileOk =>
                   lastCall.value =
                       ImageQuotaPayload(ErrorMsg("insufficient_quota"))
       /\ Called("transcribe_audio") =>
             /\ lastCall.value \in {TranscribeQuotaText, TranscribeFailedText}
             /\ lastCall.value \notin SpeechTexts
             /\ lastCall.fileOk => lastCall.value = TranscribeQuotaText
       /\ Called("generate_summary") =>
             /\ lastCall.value = SummaryQuotaPayload
             /\ HasError(lastCall.value)
             /\ lastCall.value \notin SummaryContents

\* analyze_image met a quota failure at its first request
C2_Witness ==
    /\ Called("analyze_image")
    /\ lastCall.fileOk
    /\ Always(lastCall.script, "insufficient_quota")
    /\ lastCall.log = <<Sleep(base_delay), Request(0)>>
    /\ lastCall.value.error = "API quota exceeded"

\* transcribe_audio and generate_summary met a quota failure
C2_WitnessTranscribe ==
    /\ Called("transcribe_audio")
    /\ lastCall.fileOk
    /\ Always(lastCall.script, "insufficient_quota")
    /\ lastCall.value = TranscribeQuotaText

C2_WitnessSummary ==
    /\ Called("generate_summary")
    /\ Always(lastCall.script, "insufficient_quota")
    /\ lastCall.value = SummaryQuotaPayload

\* the API fails twice with a non-quota error and then succeeds
FailFailOk == [k \in 1..max_retries |->
                  IF k < max_retries THEN "api_error" ELSE "ok"]

\* C3: when the API fails with a non-quota error on attempts 1 and 2 and
\* succeeds on attempt 3, analyze_image returns the content of attempt 3:
\* nothing is raised and the value is no error payload.
C3_ThirdAttemptSucceeds ==
    (Called("analyze_image") /\ lastCall.fileOk /\ lastCall.script = FailFailOk)
    => /\ ~lastCall.raised
       /\ lastCall.value = lastCall.content
       /\ ~HasError(lastCall.value)
       /\ Requests(lastCall.log) = max_retries

C3_Witness ==
    /\ Called("analyze_image")
    /\ lastCall.fileOk
    /\ lastCall.script = FailFailOk
    /\ lastCall.value = VisionJson
    /\ Requests(lastCall.log) = 3

\* C4 as stated: when every attempt of a vision request fails with a
\* non-quota error, analyze_image raises the last error to its caller.
C4_Original ==
    (Called("analyze_image") /\ lastCall.fileOk
        /\ Always(lastCall.script, "api_error"))
    => lastCall.raised

\* C4 as amended: when every attempt of a vision request fails with a
\* non-quota error, analyze_image makes max_retries requests, raises
\* nothing and returns the "Analysis failed" payload carrying the text of
\* the last error.
C4_ExhaustionReturnsPayload ==
    (Called("analyze_image") /\ lastCall.fileOk
        /\ Always(lastCall.script, "api_error"))
    => /\ ~lastCall.raised
       /\ Requests(lastCall.log) = max_retries
       /\ lastCall.value = ImageFailedPayload(ErrorMsg("api_error"))

C4_Witness ==
    /\ Called("analyze_image")
    /\ lastCall.fileOk
    /\ Always(lastCall.script, "api_error")
    /\ Requests(lastCall.log) = 3
    /\ lastCall.value.error = "Analysis failed"

\* C5 as stated: in all three methods a first request that fails with a
\* non-quota error is followed by a second request, so that a single such
\* failure does not yield an error result.
C5_Original ==
    (lastCall.fn # "none" /\ lastCall.fileOk
        /\ lastCall.script[1] = "api_error" /\ lastCall.script[2] = "ok")
    => /\ Requests(lastCall.log) = 2
       /\ lastCall.value = lastCall.content

\* C5 as amended: only analyze_image retries, asking again after each
\* non-quota failure until max_retries requests were made; transcribe_audio
\* and generate_summary send one request, and a non-quota failure of it
\* yields their error result.
C5_OnlyVisionRetries ==
    /\ (Called("analyze_image") /\ lastCall.fileOk)
       => Requests(lastCall.log) = FirstStop(lastCall.script, 1)
    /\ (Called("transcribe_audio") /\ lastCall.fileOk)
       => /\ Requests(lastCall.log) = 1
          /\ lastCall.script[1] = "api_error"
                => lastCall.value = TranscribeFailedText
    /\ Called("generate_summary")
       => /\ Requests(lastCall.log) = 1
          /\ lastCall.script[1] = "api_error"
                => lastCall.value = SummaryFailedPayload(ErrorMsg("api_error"))

\* one failed request of transcribe_audio, which the API would have
\* answered had it been repeated
C5_Witness ==
    /\ Called("transcribe_audio")
    /\ lastCall.fileOk
    /\ lastCall.script[1] = "api_error"
    /\ lastCall.script[2] = "ok"
    /\ Requests(lastCall.log) = 1
    /\ lastCall.value = TranscribeFailedText

\* C6: a call sends at most max_retries requests, and the request with
\* index k is the k-th of the call and comes right after a wait of
\* base_delay * 2^k seconds: no request is sent without its wait.
C6_WaitBeforeEveryRequest ==
    lastCall.fn # "none"
    => /\ Requests(lastCall.log) <= max_retries
       /\ \A i \in DOMAIN lastCall.log :
             lastCall.log[i].op = "request"
             => /\ i > 1
                /\ lastCall.log[i - 1] =
                       Sleep(base_delay * Pow2(lastCall.log[i].arg))
                /\ lastCall.log[i].arg =
                       Cardinality({ j \in 1..(i - 1) :
                                       lastCall.log[j].op = "request" })

\* three requests of analyze_image, after waits of 5, 10 and 20 seconds
C6_Witness ==
    /\ Called("analyze_image")
    /\ lastCall.log = <<Sleep(5), Request(0), Sleep(10), Request(1),
                        Sleep(20), Request(2)>>

\* the statements of analyze_video that follow the summary generation
AfterSummary == {"print", "archive", "cleanup", "publish", "done"}

\* C7: past the summary generation results['summary'] is set, and no
\* exception of generate_summary ever reaches the top level.
C7_SummaryPresent ==
    /\ pc \in AfterSummary => results.summary # None
    /\ (pc = "failed" /\ failedAt = "create_results_archive")
       => results.summary # None
    /\ failedAt # "generate_summary"

\* the request of generate_summary failed and the run went on
C7_Witness ==
    /\ pc = "print"
    /\ results.summary = SummaryFailedPayload(ErrorMsg("api_error"))

\* C8: a run that reaches the summary generation goes on to write the
\* archive, unless the writing of the archive itself fails.
C8_ArchiveProduced ==
    (pc = "summary")
    ~> (archive # None \/ failedAt = "create_results_archive")

\* the archive was written after a failed OCR, a failed vision analysis, a
\* failed transcription and a summary that could not be printed
C8_Witness ==
    /\ archive # None
    /\ rendered = "exception"
    /\ results.audio_analysis.transcription = TranscribeFailedText
    /\ \E i \in DOMAIN results.frames :
          /\ results.frames[i].ocr_text = ""
          /\ HasError(results.frames[i].vision_analysis)
    /\ \E i \in DOMAIN results.all_frames_info :
          results.all_frames_info[i].ocr_text = ""

\* the statements of analyze_video that follow the two loops over the frames
AfterAnalysis == {"extract_audio", "audio_analysis", "summary"}
                     \cup AfterSummary

\* C9: no failure of OCR or of the vision analysis ends the run, and past
\* the two loops the results hold one entry per dense frame and one per
\* key frame, in the order of the extracted lists; a failed OCR gives "".
C9_OneEntryPerFrame ==
    /\ failedAt \notin {"perform_ocr", "analyze_image"}
    /\ pc \in AfterAnalysis =>
          /\ Len(results.all_frames_info) = Len(all_frames)
          /\ \A i \in DOMAIN all_frames :
                /\ results.all_frames_info[i].filename = all_frames[i].filename
                /\ results.all_frames_info[i].timestamp
                       = all_frames[i].timestamp
                /\ results.all_frames_info[i].ocr_text \in OcrTexts \cup {""}
          /\ Len(results.frames) = Len(frames)
          /\ \A i \in DOMAIN frames :
                /\ results.frames[i].timestamp = frames[i].timestamp
                /\ results.frames[i].ocr_text \in OcrTexts \cup {""}
                /\ results.frames[i].vision_analysis # None

\* the first dense frame and the first key frame failed, the later ones
\* were analysed all the same
C9_Witness ==
    /\ pc = "extract_audio"
    /\ Len(all_frames) = 2
    /\ results.all_frames_info[1].ocr_text = ""
    /\ results.all_frames_info[2].ocr_text = "text"
    /\ Len(frames) = 3
    /\ results.frames[1].ocr_text = ""
    /\ results.frames[1].vision_analysis
           = ImageFailedPayload(ErrorMsg("api_error"))
    /\ results.frames[2].vision_analysis = VisionJson
    /\ results.frames[3].vision_analysis = VisionJson

\* C10 as stated: extract_all_frames returns duration * cadence entries, and
\* the entry with index i (from 0) has the timestamp i / cadence.
C10_Original ==
    pc = "extract_key"
    => /\ Len(all_frames) = video.duration * fps
       /\ \A i \in DOMAIN all_frames :
             RatEq(all_frames[i].timestamp, Rat(i - 1, fps))

\* the numbers of S in ascending order
RECURSIVE SortedNumbers(_)
SortedNumbers(S) ==
    IF S = {} THEN <<>>
    ELSE LET m == CHOOSE x \in S : \A y \in S : x <= y
         IN  <<m>> \o SortedNumbers(S \ {m})

\* the statements of analyze_video between the extraction of the key frames
\* and the cleanup
KeyFramesInUse == {"ocr_all", "key_frames", "extract_audio",
                   "audio_analysis", "summary", "print", "archive"}

\* C11 as stated: extract_frames returns the max_frames frames with the
\* smallest frame numbers among the files of the working directory, in
\* ascending order of frame number and of timestamp, whatever the number of
\* digits of the frame numbers.
C11_Original ==
    pc \in KeyFramesInUse
    => LET first == Take(SortedNumbers(tempDir.frames), max_frames)
       IN  /\ Len(frames) = Len(first)
           /\ \A i \in DOMAIN frames :
                 /\ frames[i].path = FrameFileName(first[i])
                 /\ RatEq(frames[i].timestamp, Rat(first[i], AssumedFps))
           /\ \A i \in DOMAIN frames : \A j \in DOMAIN frames :
                 i < j => RatLeq(frames[i].timestamp, frames[j].timestamp)

\* the statements whose failure is a failure of the extraction
ExtractionStages == {"extract_all_frames", "extract_frames", "extract_audio"}

\* C13: when extract_all_frames, extract_frames or extract_audio fails, the
\* run ends at that statement with exit status 1, and nothing of the later
\* stages exists: no audio analysis, no summary, no archive, and after a
\* failed frame extraction no analysis of any frame.
C13_ExtractionFailureFatal ==
    failedAt \in ExtractionStages
    => /\ pc = "failed"
       /\ exitCode = 1
       /\ results.audio_analysis = None
       /\ results.summary = None
       /\ rendered = "nothing"
       /\ archive = None
       /\ failedAt = "extract_all_frames" => all_frames = <<>> /\ frames = <<>>
       /\ failedAt # "extract_audio" => results = EmptyResults

\* the audio extraction failed after three key frames had been analysed
C13_Witness ==
    /\ failedAt = "extract_audio"
    /\ pc = "failed"
    /\ exitCode = 1
    /\ Len(results.frames) = max_frames

\* C15 as stated: a run that has ended, with status 0 or with status 1, has
\* cleaned the working directory: no video, no key frame and no audio file
\* is left in it.
C15_Original ==
    pc \in {"done", "failed"}
    => /\ ~tempDir.video
       /\ tempDir.frames = {}
       /\ ~tempDir.audio

IsMomentLine(l) == l.line = "moment"
IsVisionLine(l) == l.line \in {"analysis", "raw"}

\* the key-frame entry a line of the prompt belongs to: the number of
\* "moment" lines up to it
EntryOfLine(prompt, k) ==
    Cardinality({ i \in 1..k : IsMomentLine(prompt[i]) })

\* C14: the prompt has one "moment" line per entry of the report's key frames,
\* in the report's order; a vision payload appears in the prompt exactly when
\* it does not parse (then as raw text) or parses without an 'error' key (then
\* as the parsed analysis), right after the "moment" line of its own entry;
\* no line of the prompt carries a payload that parses and has an 'error' key
C14_PromptRendersFrames ==
    Called("_create_summary_prompt") =>
        LET prompt == lastCall.prompt
            fs == results.frames
            moments == SelectSeq(prompt, IsMomentLine)
        IN  /\ Len(moments) = Len(fs)
            /\ \A j \in DOMAIN fs : moments[j].timestamp = fs[j].timestamp
            /\ \A k \in DOMAIN prompt :
                  IsVisionLine(prompt[k]) =>
                      LET j == EntryOfLine(prompt, k)
                      IN  /\ j \in DOMAIN fs
                          /\ IsMomentLine(prompt[k - 1])
                          /\ prompt[k].json = fs[j].vision_analysis
                          /\ ~(Parses(prompt[k].json) /\ HasError(prompt[k].json))
                          /\ (prompt[k].line = "raw") <=> ~Parses(prompt[k].json)
            /\ \A j \in DOMAIN fs :
                  (\E k \in DOMAIN prompt :
                      IsVisionLine(prompt[k]) /\ EntryOfLine(prompt, k) = j)
                  <=> (~Parses(fs[j].vision_analysis)
                       \/ ~HasError(fs[j].vision_analysis))

\* a report of two key frames, the first with an error payload and the second
\* with an unparsable one, has been rendered: the only vision line is the raw
\* text of the second
C14_Witness ==
    /\ Called("_create_summary_prompt")
    /\ Len(results.frames) = 2
    /\ HasError(results.frames[1].vision_analysis)
    /\ ~Parses(results.frames[2].vision_analysis)
    /\ SelectSeq(lastCall.prompt, IsVisionLine)
           = <<[line |-> "raw", json |-> VisionRaw]>>

\* C16 as stated: over any sequence of runs, the key frames a run holds are
\* frames of that run's video, and as many of them as the video has scene
\* changes, up to max_frames
C16_Original ==
    pc \in KeyFramesInUse =>
        /\ \A i \in DOMAIN frames : frames[i].path \in FrameFiles(video.scenes)
        /\ Len(frames) = Len(Take(SortedNumbers(video.scenes), max_frames))

\* the statements between a run's download and the end of its extract_audio:
\* the run still reads temp/video.<ext>
VideoInUse ==
    {"metadata", "extract_all", "extract_key", "ocr_all", "key_frames",
     "extract_audio"}

\* the working-directory files run p has written and has not finished using
UsesVideo(p) == pc[p] \in VideoInUse /\ tempDir.video = p
UsesAudio(p) == pc[p] = "audio_analysis" /\ tempDir.audio = p
FramesInUse(p) ==
    IF pc[p] # "key_frames" THEN {}
    ELSE { f \in tempDir.frames :
              /\ f.by = p
              /\ \E i \in (Len(results[p].frames) + 1)..Len(frames[p]) :
                    frames[p][i].path = FrameFileName(f.n) }

\* C12 as stated: in every interleaving of two runs, a step of one run leaves
\* in place, and as written, the video, the key frames and the audio that the
\* other run has written and has not finished using
C12_Original ==
    [][\A p \in Runs :
          pc'[p] = pc[p] =>
              /\ UsesVideo(p) => tempDir'.video = p
              /\ UsesAudio(p) => tempDir'.audio = p
              /\ \A f \in FramesInUse(p) : f \in tempDir'.frames]_vars

====
